---------------------------- MODULE Spec2Model ----------------------------
(***************************************************************************)
(* Session supervision engine of youtube-rtsp-proxy:                       *)
(*   internal/stream/manager.go   Manager (session registry), Stream       *)
(*   internal/monitor/monitor.go  Monitor (probe loop, failure handling,   *)
(*                                reconnection with exponential backoff)   *)
(* Goroutines are modelled as threads with a program position; every      *)
(* action is one critical section or one collaborator call of the code.    *)
(* A Stream object no goroutine and no registry entry refers to any more   *)
(* is reclaimed, as by the Go runtime, and its slot is reused.             *)
(* Spec is the whole program; SpecManager, SpecUnattended, SpecMonitor and *)
(* SpecProbe are the program with part of its environment held still.      *)
(***************************************************************************)
EXTENDS Integers, Sequences, FiniteSets, TLC

(***************************************************************************)
(* Bounds of the model                                                     *)
(***************************************************************************)
\* Stream objects in use at the same time
MaxObjs == 2
\* failure-handling goroutines alive at the same time
MaxTasks == 1
\* further goroutines alive at the same time where a claim is about their number
MaxCrowd == 1
\* relay server processes started by one MediaMTXServer
MaxServerProcs == 3
\* StreamLogger: the largest configured maxLines, the number of Log calls, and
\* the length of a formatted message
LogMaxLines == 2
MaxLogs == 3
MaxMsg == 2
\* NewStreamLogger, stream_logger.go:32
DefaultLogLines == 100
\* largest error_count a Stream reaches (no failure is handled beyond it)
MaxErrors == 2
\* monitor.reconnect.max_attempts as configured in the model
MaxAttempts == 2
\* monitor.max_consecutive_errors as configured in the model
MaxConsecutiveErrors == 2
\* distinct playable URLs the extractor can return
MaxURL == 1
\* largest received-byte counter value the relay reports
MaxBytes == 1

(***************************************************************************)
(* Program constants                                                       *)
(***************************************************************************)
\* checkStreamHealth: stallCount >= 3
StallThreshold == 3
\* monitor.reconnect.initial_delay (seconds)
InitialDelay == 5
\* monitor.reconnect.max_delay (seconds)
MaxDelay == 300
\* monitor.reconnect.multiplier
Multiplier == 2
\* monitor.reconnect.max_attempts as setDefaults leaves it
DefaultMaxAttempts == 10

Names == {"lofi"}
ObjIds == 1..MaxObjs
TaskIds == 1..MaxTasks
\* every goroutine slot there is; those beyond TaskIds are used by SpecCrowd only
CrowdIds == 1..(MaxTasks + MaxCrowd)
URLs == 1..MaxURL
NoStream == 0
\* holders of Manager.mu
Free == 0
CliId == -1
\* pid of a process left over from a previous run (storage entry at start-up)
LeftoverPid == MaxObjs + 1
Probers == {"mon"}
ServerPids == 1..MaxServerProcs
\* names of the entries of the data directory, and the goroutines that call
\* FileStorage
StoreNames == {"lofi", "jazz", "news"}
StoreThreads == {"cli", "mon"}
PathStates == {"absent", "notready", "ready"}

VARIABLES
    streams,   \* Manager.streams: name -> Stream object (NoStream: absent)
    storage,   \* FileStorage: name -> persisted FFmpegPID (0: no entry)
    mu,        \* Manager.mu: Free or the thread holding it exclusively
    start,     \* locals of the Manager.Start call in progress (under mu)
    heap,      \* the Stream objects
    alive,     \* pids of live ffmpeg processes
    path,      \* relay server: status of each session's path
    cli,       \* the API call that returned in the step just taken, with its result
    prober,    \* the probe loop (Monitor.run) and its runHealthChecks cycle
    task,      \* goroutines spawned by the monitor
    ctxDone,   \* the supervision context is cancelled
    streak,    \* per name: unhealthy verdicts since the last healthy verdict
               \* (counted up to MaxConsecutiveErrors)
    calc,      \* the pure function under evaluation, its input and its result
    waiting,   \* the Manager.Stop call blocked in m.mu.Lock(), or the one that returned
    monitorRunning, \* Monitor.running
    server,    \* MediaMTXServer: running, pid, the pid file, its processes and
               \* their exit watchers
    files,     \* FileStorage: the entries of the data directory and FileStorage.mu
    logfile    \* StreamLogger: the content of the stream's log file

vars == <<streams, storage, mu, start, heap, alive, path, cli, prober,
          task, ctxDone, streak, calc, waiting, monitorRunning, server, files, logfile>>

\* the state of Manager and Monitor
program == <<streams, storage, mu, start, heap, alive, path, cli, prober,
             task, ctxDone, streak, waiting, monitorRunning>>

\* what the actions of Manager and Monitor leave alone unless they say otherwise
aside == <<calc, waiting, monitorRunning, server, files, logfile>>

(***************************************************************************)
(* Stream (manager.go, second part)                                        *)
(***************************************************************************)
States == {"idle", "starting", "running", "reconnecting", "stopping", "error"}

\* NewStream, then SetStreamURL, SetFFmpegPID, SetState(StateRunning) as Manager.Start
\* leaves the object when it registers it
NewStream(name, url, pid) ==
    [name |-> name, state |-> "running", pid |-> pid, url |-> url, stale |-> FALSE,
     errorCount |-> 0, consecutiveErrors |-> 0, lastError |-> "none",
     lastBytes |-> 0, stallCount |-> 0, checked |-> FALSE]

\* the zero value of an unused slot
NoObject ==
    [name |-> "", state |-> "idle", pid |-> 0, url |-> 0, stale |-> FALSE,
     errorCount |-> 0, consecutiveErrors |-> 0, lastError |-> "none",
     lastBytes |-> 0, stallCount |-> 0, checked |-> FALSE]

SetState(s, st) == [s EXCEPT !.state = st]

SetStreamURL(s, url) == [s EXCEPT !.url = url, !.stale = FALSE]

\* a failure counted in consecutive_errors only
IncrementConsecutiveOnly(s) ==
    [s EXCEPT !.consecutiveErrors = @ + 1]

IncrementErrorCount(s) ==
    [s EXCEPT !.errorCount = @ + 1, !.consecutiveErrors = @ + 1]

ResetConsecutiveErrors(s) == [s EXCEPT !.consecutiveErrors = 0]

SetLastError(s, e) == [s EXCEPT !.lastError = e]

\* SetLastChecked(time.Now()): checked tells a stamped LastChecked from the zero
\* time of a new Stream
SetLastChecked(s) == [s EXCEPT !.checked = TRUE]

\* the Stream after UpdateBytesReceived(bytes); DataFlowing is its return value
UpdateBytesReceived(s, bytes) ==
    IF bytes = s.lastBytes
    THEN [s EXCEPT !.stallCount = @ + 1]
    ELSE [s EXCEPT !.lastBytes = bytes, !.stallCount = 0]

DataFlowing(s, bytes) == bytes # s.lastBytes

\* KillByPID / FFmpegProcess.Stop: the process is gone afterwards; pid <= 0 is a no-op
KillByPID(procs, pid) == procs \ {pid}

IsProcessAlive(pid) == pid > 0 /\ pid \in alive

Registered == {n \in Names : streams[n] # NoStream}

\* Manager.GetAllStreams
GetAllStreams == {streams[n] : n \in Registered}

\* the Stream objects something still points to: the registry, a cycle's snapshot,
\* a goroutine's s
Live(str, prb, tsk) ==
    ({str[n] : n \in Names} \cup UNION {prb[th].todo : th \in Probers}
       \cup {prb[th].cur : th \in Probers} \cup {tsk[t].s : t \in CrowdIds})
    \ {NoStream}

\* the heap after a step: h, without the objects nothing points to any more
SetHeap(h) ==
    heap' = [o \in ObjIds |->
               IF o \in Live(streams', prober', task') THEN h[o] ELSE NoObject]

\* the slot a new Stream object takes
FreeSlots == ObjIds \ Live(streams, prober, task)
NewSlot == CHOOSE o \in FreeSlots : \A p \in FreeSlots : o <= p

(***************************************************************************)
(* Initial state: NewManager / NewMonitor. The registry is empty; storage   *)
(* may hold an entry a previous run left behind.                           *)
(***************************************************************************)
IdleCli == [op |-> "none", name |-> "", res |-> "none"]
IdleProber == [pc |-> "idle", todo |-> {}, cur |-> NoStream]
NoTask == [pc |-> "unborn", s |-> NoStream, reason |-> "none", refresh |-> FALSE,
           attempt |-> 0, backoff |-> 0, err |-> "none"]
NoStart == [pc |-> "none", name |-> "", url |-> 0]
\* no pure function is under evaluation
NoCalc == [fn |-> "none"]

\* NewManager, NewMonitor: the program as constructed
\* no Manager.Stop call is waiting for the lock
NoCall == [op |-> "none", name |-> "", registered |-> FALSE, holder |-> Free, attempt |-> 0]

Constructed ==
    /\ streams = [n \in Names |-> NoStream]
    /\ storage \in [Names -> {0, LeftoverPid}]
    /\ alive \in SUBSET {storage[n] : n \in Names} /\ 0 \notin alive
    /\ mu = Free
    /\ start = NoStart
    /\ heap = [o \in ObjIds |-> NoObject]
    /\ path = [n \in Names |-> "absent"]
    /\ cli = IdleCli
    /\ prober = [th \in Probers |-> IdleProber]
    /\ task = [t \in CrowdIds |-> NoTask]
    /\ ctxDone = FALSE
    /\ streak = [n \in Names |-> 0]
    /\ waiting = NoCall
    /\ monitorRunning = TRUE

\* NewMediaMTXServer: nothing runs, no pid, no pid file
NoServer ==
    [running |-> FALSE, pid |-> 0, pidFile |-> 0, procs |-> {}, used |-> {},
     watch |-> [p \in ServerPids |-> "none"], pc |-> "idle", fresh |-> 0]

\* the pids the operating system has given to server processes so far
UsedPids(s) == s.used

\* NewFileStorage on an empty data directory
NoFiles ==
    [entries |-> {}, dead |-> {}, mu |-> "free",
     pc |-> [th \in StoreThreads |-> "idle"], todo |-> [th \in StoreThreads |-> {}],
     listed |-> [th \in StoreThreads |-> {}]]

\* no log file yet
\* NewStreamLogger, stream_logger.go:30-38, before the first Log call: the file
\* does not exist yet; logged is the history of everything Log has written
NewStreamLogger(maxLines) ==
    [content |-> <<>>, logged |-> <<>>, calls |-> 0,
     maxLines |-> IF maxLines <= 0 THEN DefaultLogLines ELSE maxLines]
NoLog == NewStreamLogger(0)

\* the collaborators that are modelled on their own, as constructed
Apart == server = NoServer /\ files = NoFiles /\ logfile = NoLog

Init == Constructed /\ calc = NoCalc /\ Apart

(***************************************************************************)
(* Manager (manager.go, first part)                                        *)
(***************************************************************************)
\* the API caller is inside Manager.Start
CliBusy == mu = CliId

\* no API call returns in this step
NoReturn == cli' = IdleCli

\* a Manager.Start call has taken the lock: the caller is inside Start
StartEntered(th, n) ==
    IF th = CliId
    THEN /\ NoReturn
         /\ UNCHANGED task
    ELSE /\ task' = [task EXCEPT ![th].pc = "in_start"]
         /\ NoReturn

\* reconnectStream(ctx, s) is entered: line 260 and the loop's initialisation
EnterReconnect(tk, refresh) ==
    [tk EXCEPT !.pc = "rc_check", !.reason = "none", !.refresh = refresh,
               !.attempt = 1, !.backoff = InitialDelay]

\* a goroutine that has returned
Finished == NoTask

\* RestartStream, lines 285-291, returns Start's error to reconnectStream (lines
\* 279-297); the lock retaken at line 286 is released at once by the deferred Unlock.
\* Called from restartStream (attempt 0, lines 315-318) a success ends the
\* goroutine and an error enters reconnectStream
RestartReturn(tk, err) ==
    IF tk.attempt = 0
    THEN IF err = "ok" THEN Finished ELSE EnterReconnect(tk, tk.refresh)
    ELSE [tk EXCEPT !.pc = IF err = "ok" THEN "rc_success" ELSE "rc_sleep", !.err = err]

\* Manager.Start returns err to its caller (the CLI, or RestartStream line 285)
StartReturn(th, n, err) ==
    IF th = CliId
    THEN /\ cli' = [op |-> "Start", name |-> n, res |-> err]
         /\ UNCHANGED task
    ELSE /\ task' = [task EXCEPT ![th] = RestartReturn(@, err)]
         /\ NoReturn

\* a Start that never finds the name in the registry
ExistsNever(n) == FALSE

\* Start, line 57: _, exists := m.streams[name]
Exists(n) == streams[n] # NoStream

\* Start, lines 52-89: take the lock; an existing name is refused at once;
\* m.extractor.Extract and m.ffmpeg.Start are called with the lock held, and the
\* 2 s confirmation window begins
StartLock(th, n) ==
    /\ mu = Free
    /\ UNCHANGED <<streams, storage, alive, path, prober, ctxDone, streak, aside>>
    /\ IF Exists(n)
       THEN /\ StartReturn(th, n, "exists")
            /\ UNCHANGED <<mu, start>>
       ELSE /\ FreeSlots # {}
            /\ \E r \in URLs \cup {0}, ok \in BOOLEAN :
                 IF r = 0
                 THEN /\ StartReturn(th, n, "extract")
                      /\ UNCHANGED <<mu, start>>
                 ELSE IF ~ok
                 THEN /\ StartReturn(th, n, "ffmpeg")
                      /\ UNCHANGED <<mu, start>>
                 ELSE /\ mu' = th
                      /\ start' = [pc |-> "sleep", name |-> n, url |-> r]
                      /\ StartEntered(th, n)
    /\ SetHeap(heap)

\* a Start that registers the Session without any confirmation
StartUnconfirmed(running, pathStatus) == TRUE

\* Start, line 92: what Start requires before it registers the Session as Running
\* (running: proc.IsRunning(); the relay's status of the path is not asked for)
StartConfirmed(running, pathStatus) == running

\* a Start that has put the Session into the registry before the confirmation
StartAbortedKeeps(n) == [streams EXCEPT ![n] = NewSlot]

\* Start, lines 92-96: the registry when Start returns "exited prematurely"; the
\* Stream object was never stored (lines 103-104 are not reached)
StartAborted(n) == streams

\* Start, lines 91-109: proc.IsRunning after the window, then register and persist
StartVerify(th) ==
    /\ mu = th /\ start.pc = "sleep"
    /\ mu' = Free /\ start' = NoStart
    /\ UNCHANGED <<path, prober, ctxDone, streak, aside>>
    /\ \E running \in BOOLEAN :
         IF StartConfirmed(running, path[start.name])
         THEN /\ alive' = IF running THEN alive \cup {NewSlot} ELSE alive
              /\ streams' = [streams EXCEPT ![start.name] = NewSlot]
              /\ storage' = [storage EXCEPT ![start.name] = NewSlot]
              /\ StartReturn(th, start.name, "ok")
              /\ SetHeap([heap EXCEPT ![NewSlot] =
                            NewStream(start.name, start.url, NewSlot)])
         ELSE /\ StartReturn(th, start.name, "premature")
              /\ streams' = StartAborted(start.name)
              /\ UNCHANGED <<alive, storage>>
              /\ SetHeap(heap)

\* stopStream, lines 121-155, on the registry, the processes and storage
stopStream(n) ==
    IF streams[n] = NoStream
    THEN /\ IF storage[n] > 0
            THEN /\ alive' = KillByPID(alive, storage[n])
                 /\ storage' = [storage EXCEPT ![n] = 0]
            ELSE UNCHANGED <<alive, storage>>
         /\ UNCHANGED streams
    ELSE /\ alive' = KillByPID(alive, heap[streams[n]].pid)
         /\ streams' = [streams EXCEPT ![n] = NoStream]
         /\ storage' = [storage EXCEPT ![n] = 0]

\* stopStream, line 136, on the Stream object
stopStreamHeap(n) ==
    IF streams[n] = NoStream THEN heap
    ELSE [heap EXCEPT ![streams[n]] = SetState(@, "stopping")]

\* a stopStream that never returns an error
stopStreamNil(n) == "ok"

\* the error stopStream returns (lines 124-133, 154)
stopStreamErr(n) ==
    IF streams[n] = NoStream /\ storage[n] = 0 THEN "notfound" ELSE "ok"

\* Manager.Stop, lines 113-118
Stop(n) ==
    /\ ~CliBusy /\ mu = Free
    /\ stopStream(n)
    /\ cli' = [op |-> "Stop", name |-> n, res |-> stopStreamErr(n)]
    /\ UNCHANGED <<mu, start, path, prober, task, ctxDone, streak, aside>>
    /\ SetHeap(stopStreamHeap(n))

\* Manager.Start called through the API (runStart, startFavorites)
CliStart(n) == ~CliBusy /\ StartLock(CliId, n)

\* RecoverStreams, lines 325-360: a stored entry whose process lives becomes a
\* registered Running Stream (LastURLRefresh as stored), a dead one is deleted
RecoverStreams(n) ==
    /\ ~CliBusy /\ mu = Free
    /\ streams[n] = NoStream /\ storage[n] > 0
    /\ NoReturn
    /\ UNCHANGED <<mu, start, alive, path, prober, task, ctxDone, streak, aside>>
    /\ IF IsProcessAlive(storage[n])
       THEN /\ FreeSlots # {}
            /\ streams' = [streams EXCEPT ![n] = NewSlot]
            /\ UNCHANGED storage
            /\ \E st \in BOOLEAN :
                 SetHeap([heap EXCEPT ![NewSlot] =
                            [NewStream(n, 0, storage[n]) EXCEPT !.stale = st]])
       ELSE /\ storage' = [storage EXCEPT ![n] = 0]
            /\ UNCHANGED streams
            /\ SetHeap(heap)

(***************************************************************************)
(* Environment: the collaborators                                          *)
(***************************************************************************)
\* an ffmpeg process exits by itself
ProcessExit(p) ==
    /\ p \in alive
    /\ alive' = alive \ {p}
    /\ UNCHANGED <<streams, storage, mu, start, heap, path, prober,
                   task, ctxDone, streak, aside>>
    /\ NoReturn

\* the relay server's view of a path changes
PathChange(n, v) ==
    /\ path[n] # v
    /\ path' = [path EXCEPT ![n] = v]
    /\ UNCHANGED <<streams, storage, mu, start, heap, alive, prober,
                   task, ctxDone, streak, aside>>
    /\ NoReturn

\* the URL refresh interval elapses for a registered Stream
Elapse(o) ==
    /\ o \in GetAllStreams /\ ~heap[o].stale
    /\ heap' = [heap EXCEPT ![o].stale = TRUE]
    /\ UNCHANGED <<streams, storage, mu, start, alive, path, prober,
                   task, ctxDone, streak, aside>>
    /\ NoReturn

(***************************************************************************)
(* Monitor (monitor.go): failure classification and refresh policy         *)
(***************************************************************************)
\* the reasons checkStreamHealth and ForceReconnect produce
ReasonProcess == "ffmpeg process not running"
ReasonPathNotFound == "path not found in MediaMTX"
ReasonPathNotReady == "path not ready"
ReasonStalled == "stream stalled (no data flow)"
ReasonForced == "forced reconnection"
Reasons == {ReasonProcess, ReasonPathNotFound, ReasonPathNotReady, ReasonStalled,
            ReasonForced}

\* a reason string as its sequence of characters
Text(reason) ==
    CASE reason = "ffmpeg process not running" ->
         <<"f", "f", "m", "p", "e", "g", " ", "p", "r", "o", "c", "e", "s", "s", " ", "n", "o", "t", " ", "r", "u", "n", "n", "i", "n", "g">>
      [] reason = "path not found in MediaMTX" ->
         <<"p", "a", "t", "h", " ", "n", "o", "t", " ", "f", "o", "u", "n", "d", " ", "i", "n", " ", "M", "e", "d", "i", "a", "M", "T", "X">>
      [] reason = "path not ready" ->
         <<"p", "a", "t", "h", " ", "n", "o", "t", " ", "r", "e", "a", "d", "y">>
      [] reason = "stream stalled (no data flow)" ->
         <<"s", "t", "r", "e", "a", "m", " ", "s", "t", "a", "l", "l", "e", "d", " ", "(", "n", "o", " ", "d", "a", "t", "a", " ", "f", "l", "o", "w", ")">>
      [] reason = "forced reconnection" ->
         <<"f", "o", "r", "c", "e", "d", " ", "r", "e", "c", "o", "n", "n", "e", "c", "t", "i", "o", "n">>

UpperCase ==
    <<"A", "B", "C", "D", "E", "F", "G", "H", "I", "J", "K", "L", "M",
      "N", "O", "P", "Q", "R", "S", "T", "U", "V", "W", "X", "Y", "Z">>
LowerCase ==
    <<"a", "b", "c", "d", "e", "f", "g", "h", "i", "j", "k", "l", "m",
      "n", "o", "p", "q", "r", "s", "t", "u", "v", "w", "x", "y", "z">>

\* strings.ToLower on one character
LowerChar(c) ==
    IF \E i \in 1..Len(UpperCase) : UpperCase[i] = c
    THEN LowerCase[CHOOSE i \in 1..Len(UpperCase) : UpperCase[i] = c]
    ELSE c

\* a classifier that compares the text as it is written
ToLowerNone(str) == str

\* strings.ToLower, as hasURLExpiredError line 238 calls it
ToLower(str) == [i \in 1..Len(str) |-> LowerChar(str[i])]

\* strings.Contains
Contains(str, sub) ==
    \E i \in 0..(Len(str) - Len(sub)) :
        \A j \in 1..Len(sub) : str[i + j] = sub[j]

\* hasURLExpiredError, line 228: the patterns
Patterns ==
    << <<"4", "0", "3">>,
       <<"4", "0", "4">>,
       <<"f", "o", "r", "b", "i", "d", "d", "e", "n">>,
       <<"n", "o", "t", " ", "f", "o", "u", "n", "d">>,
       <<"c", "o", "n", "n", "e", "c", "t", "i", "o", "n", " ", "r", "e", "f", "u", "s", "e", "d">>,
       <<"t", "i", "m", "e", "o", "u", "t">>,
       <<"e", "x", "p", "i", "r", "e", "d">> >>

\* hasURLExpiredError, lines 238-244, on the characters of errMsg
Classify(text) ==
    \E k \in 1..Len(Patterns) : Contains(ToLower(text), Patterns[k])

\* hasURLExpiredError, lines 227-245
hasURLExpiredError(reason) == Classify(Text(reason))

\* a policy that asks for more failures than the threshold
shouldRefreshURLStrict(s, reason) ==
    \/ s.stale
    \/ s.consecutiveErrors > MaxConsecutiveErrors
    \/ hasURLExpiredError(reason)

\* shouldRefreshURL, lines 207-224
shouldRefreshURL(s, reason) ==
    \/ s.stale
    \/ s.consecutiveErrors >= MaxConsecutiveErrors
    \/ hasURLExpiredError(reason)

\* a backoff that is never clamped
nextBackoffUnclamped(current) == current * Multiplier

\* nextBackoff, lines 322-328 (durations in seconds)
nextBackoff(current) ==
    LET next == current * Multiplier
    IN IF next > MaxDelay THEN MaxDelay ELSE next

(***************************************************************************)
(* Monitor: the probe loop                                                 *)
(***************************************************************************)
\* `go m.handleStreamFailure(ctx, s, reason)`: a new goroutine at its first line
\* (at most MaxTasks goroutines at a time, no Stream beyond MaxErrors failures)
FreeTasks == {t \in TaskIds : task[t].pc = "unborn"}

\* the same goroutine taken from the given slots
SpawnIn(slots, o, reason) ==
    /\ slots \cap {t \in CrowdIds : task[t].pc = "unborn"} # {}
    /\ heap[o].errorCount < MaxErrors
    /\ LET free == slots \cap {t \in CrowdIds : task[t].pc = "unborn"}
           t == CHOOSE x \in free : \A y \in free : x <= y
       IN task' = [task EXCEPT ![t] =
                     [NoTask EXCEPT !.pc = "hsf", !.s = o, !.reason = reason]]

Spawn(o, reason) == SpawnIn(TaskIds, o, reason)

\* one more unhealthy verdict for the name
Unhealthy(n) ==
    streak' = [streak EXCEPT ![n] = IF @ < MaxConsecutiveErrors THEN @ + 1 ELSE @]

\* a cycle that checks every Session whatever its state
ShouldProbeAny(st) == TRUE

\* runHealthChecks, line 119: the Sessions a cycle checks
ShouldProbe(st) == st = "running"

\* the cycle moves on to the next Session of its snapshot, or ends
NextStream(todo) ==
    IF todo = {} THEN IdleProber
    ELSE [pc |-> "loop", todo |-> todo, cur |-> NoStream]

\* run, lines 96-104, and runHealthChecks, lines 108-117: the ticker fires, the
\* server is healthy, the cycle takes its snapshot of the registry
MonTick ==
    /\ prober["mon"].pc = "idle"
    /\ mu = Free
    /\ prober' = [prober EXCEPT !["mon"] = NextStream(GetAllStreams)]
    /\ UNCHANGED <<streams, storage, mu, start, alive, path, task,
                   ctxDone, streak, aside>>
    /\ NoReturn
    /\ SetHeap(heap)

\* run, lines 98-100: the loop ends on ctx.Done
MonExit ==
    /\ prober["mon"].pc = "idle" /\ ctxDone
    /\ prober' = [prober EXCEPT !["mon"].pc = "stopped"]
    /\ UNCHANGED <<streams, storage, mu, start, heap, alive, path, task, ctxDone, streak, aside>>
    /\ NoReturn

\* runHealthChecks, lines 118-121: read the Session's state, skip or check it
ProbeRead(th, o) ==
    /\ prober[th].pc = "loop" /\ o \in prober[th].todo
    /\ prober' = [prober EXCEPT ![th] =
                    IF ShouldProbe(heap[o].state)
                    THEN [pc |-> "check", todo |-> prober[th].todo \ {o}, cur |-> o]
                    ELSE NextStream(prober[th].todo \ {o})]
    /\ UNCHANGED <<streams, storage, mu, start, alive, path, task, ctxDone, streak, aside>>
    /\ NoReturn
    /\ SetHeap(heap)

\* a probe that asks the relay for the path before it looks at the process
FirstFailurePathFirst(s) ==
    IF path[s.name] = "absent" THEN ReasonPathNotFound
    ELSE IF path[s.name] = "notready" THEN ReasonPathNotReady
    ELSE IF ~IsProcessAlive(s.pid) THEN ReasonProcess
    ELSE ""

\* checkStreamHealth, lines 141-157: the first failing check, "" when none fails
FirstFailure(s) ==
    IF ~IsProcessAlive(s.pid) THEN ReasonProcess
    ELSE IF path[s.name] = "absent" THEN ReasonPathNotFound
    ELSE IF path[s.name] = "notready" THEN ReasonPathNotReady
    ELSE ""

\* a stall verdict at the first unchanged counter
StalledAtOnce(s, bytes) == ~DataFlowing(s, bytes)

\* checkStreamHealth, lines 159-165: the stall verdict after UpdateBytesReceived
Stalled(s, bytes) ==
    ~DataFlowing(s, bytes) /\ UpdateBytesReceived(s, bytes).stallCount >= StallThreshold

\* a cycle that calls handleStreamFailure inline and stays in the call
HandedInline(th) == [prober[th] EXCEPT !.pc = "wait"]

\* runHealthChecks, line 126: `go m.handleStreamFailure(...)` returns at once and
\* the cycle goes on with the rest of its snapshot
Handed(th) == NextStream(prober[th].todo)

\* a healthy verdict that leaves the failure count alone
JudgedHealthyKeepsCount(s) == SetLastChecked(s)

\* runHealthChecks, lines 128-129: the Stream after a healthy verdict
JudgedHealthy(s) == SetLastChecked(ResetConsecutiveErrors(s))

\* runHealthChecks, lines 123-130, with checkStreamHealth: probe one Session
ProbeCheckIn(th, slots) ==
    /\ prober[th].pc = "check"
    /\ UNCHANGED <<streams, storage, mu, start, alive, path, ctxDone, aside>>
    /\ NoReturn
    /\ LET o == prober[th].cur
           s == heap[o]
       IN IF FirstFailure(s) # ""
          THEN /\ SpawnIn(slots, o, FirstFailure(s))
               /\ Unhealthy(s.name)
               /\ prober' = [prober EXCEPT ![th] = Handed(th)]
               /\ SetHeap(heap)
          ELSE \E bytes \in 0..MaxBytes :
                 IF Stalled(s, bytes)
                 THEN /\ SpawnIn(slots, o, ReasonStalled)
                      /\ Unhealthy(s.name)
                      /\ prober' = [prober EXCEPT ![th] = Handed(th)]
                      /\ SetHeap([heap EXCEPT ![o] = UpdateBytesReceived(s, bytes)])
                 ELSE /\ streak' = [streak EXCEPT ![s.name] = 0]
                      /\ UNCHANGED task
                      /\ prober' = [prober EXCEPT ![th] = NextStream(prober[th].todo)]
                      /\ SetHeap([heap EXCEPT ![o] =
                            JudgedHealthy(UpdateBytesReceived(s, bytes))])

\* the probe step with the goroutine slots of the ordinary specifications
ProbeCheck(th) == ProbeCheckIn(th, TaskIds)

\* the probe loop inside handleServerFailure
InRecovery(pc) == [pc |-> pc, todo |-> {}, cur |-> NoStream]

\* run, lines 96-104, and runHealthChecks, lines 110-112: the ticker fires and
\* m.server.HealthCheck() returns an error; handleServerFailure is called
HealthCheckFails ==
    /\ prober["mon"].pc = "idle"
    /\ prober' = [prober EXCEPT !["mon"] = InRecovery("srv")]
    /\ UNCHANGED <<streams, storage, mu, start, heap, alive, path, task,
                   ctxDone, streak, aside>>
    /\ NoReturn

\* handleServerFailure, line 174, with MediaMTXServer.Restart: Stop fails, or the
\* server is stopped (its paths are gone) and Start fails or succeeds
ServerRestart ==
    /\ prober["mon"].pc = "srv"
    /\ \E res \in {"stop", "start", "ok"} :
         /\ prober' = [prober EXCEPT !["mon"] =
                         InRecovery(IF res = "ok" THEN "srv_ok" ELSE "srv_err")]
         /\ path' = IF res = "stop" THEN path ELSE [n \in Names |-> "absent"]
    /\ UNCHANGED <<streams, storage, mu, start, heap, alive, task, ctxDone, streak, aside>>
    /\ NoReturn

\* a recovery that goes on to the Sessions although the restart failed
AfterRestartErrorGoesOn == InRecovery("srv_ok")

\* handleServerFailure, lines 175-176, and runHealthChecks, line 113: the error is
\* logged and the cycle is over
AfterRestartError == IdleProber

\* handleServerFailure, lines 174-177: m.server.Restart has returned an error
RestartFailed ==
    /\ prober["mon"].pc = "srv_err"
    /\ prober' = [prober EXCEPT !["mon"] = AfterRestartError]
    /\ UNCHANGED <<streams, storage, mu, start, heap, alive, path, task,
                   ctxDone, streak, aside>>
    /\ NoReturn

\* a recovery that restarts no Session
RestartTargetsNone == {}

\* handleServerFailure, line 182: the Sessions that are restarted
RestartTargets == GetAllStreams

\* a cycle that goes on to the per-Session checks after the recovery
AfterRecoveryGoesOn == NextStream(GetAllStreams)

\* runHealthChecks, line 113: return after handleServerFailure
AfterRecovery == IdleProber

\* handleServerFailure, lines 179-185: the server is back; one restartStream
\* goroutine is started for every Session of the registry
RestartAll ==
    /\ prober["mon"].pc = "srv_ok" /\ mu = Free
    /\ \E f \in [RestartTargets -> FreeTasks] :
         /\ \A o, p \in RestartTargets : f[o] = f[p] => o = p
         /\ task' = [t \in CrowdIds |->
                       IF \E o \in RestartTargets : f[o] = t
                       THEN [NoTask EXCEPT !.pc = "rst",
                                           !.s = CHOOSE o \in RestartTargets : f[o] = t]
                       ELSE task[t]]
    /\ prober' = [prober EXCEPT !["mon"] = AfterRecovery]
    /\ UNCHANGED <<streams, storage, mu, start, alive, path, ctxDone, streak, aside>>
    /\ NoReturn
    /\ SetHeap(heap)

\* restartStream, lines 307-312: the URL is refreshed first (refreshStreamURL,
\* lines 248-256); an extractor error is logged and the restart goes ahead
restartStream(t) ==
    /\ task[t].pc = "rst"
    /\ task' = [task EXCEPT ![t].pc = "rs_lock", ![t].refresh = TRUE]
    /\ \E r \in URLs \cup {0} :
         heap' = [heap EXCEPT ![task[t].s] = IF r = 0 THEN @ ELSE SetStreamURL(@, r)]
    /\ UNCHANGED <<streams, storage, mu, start, alive, path, prober,
                   ctxDone, streak, aside>>
    /\ NoReturn

\* ForceReconnect, lines 336-344
ForceReconnect(n) ==
    /\ ~CliBusy /\ mu = Free
    /\ IF streams[n] = NoStream
       THEN UNCHANGED task
       ELSE Spawn(streams[n], ReasonForced)
    /\ NoReturn
    /\ UNCHANGED <<streams, storage, mu, start, heap, alive, path, prober,
                   ctxDone, streak, aside>>

\* the supervision context is cancelled (Monitor.Stop, or the signal handler)
Cancel ==
    /\ ~ctxDone
    /\ ctxDone' = TRUE
    /\ UNCHANGED <<streams, storage, mu, start, heap, alive, path, prober, task, streak, aside>>
    /\ NoReturn

\* Monitor.Stop, lines 67-76: a running monitor cancels its context and clears
\* the flag; wg.Wait() (line 78) returns when run has returned (StopReturned)
MonStop ==
    /\ monitorRunning
    /\ monitorRunning' = FALSE
    /\ ctxDone' = TRUE
    /\ UNCHANGED <<streams, storage, mu, start, heap, alive, path, prober, task,
                   streak, calc, waiting, server, files, logfile>>
    /\ NoReturn

\* Monitor.Start, lines 46-62, called as runStart does (`if !mon.IsRunning()
\* { mon.Start(getContext()) }`) once the former loop and its goroutines are gone:
\* with the flag set nothing happens (lines 47-50), otherwise the flag is set and
\* a new loop runs under a new context
MonStart ==
    /\ prober["mon"].pc = "stopped"
    /\ \A t \in CrowdIds : task[t].pc = "unborn"
    /\ IF monitorRunning
       THEN UNCHANGED <<monitorRunning, ctxDone, prober>>
       ELSE /\ monitorRunning' = TRUE
            /\ ctxDone' = FALSE
            /\ prober' = [prober EXCEPT !["mon"] = IdleProber]
    /\ UNCHANGED <<streams, storage, mu, start, heap, alive, path, task,
                   streak, calc, waiting, server, files, logfile>>
    /\ NoReturn

(***************************************************************************)
(* Monitor: failure handling and the reconnection sequence                 *)
(***************************************************************************)
\* the Stream after handleStreamFailure, lines 190-192
Failed(s, reason) ==
    SetState(SetLastError(IncrementErrorCount(s), reason), "reconnecting")

\* a policy that is asked before the failure is counted
PolicySeesBefore(before, after) == before

\* handleStreamFailure, lines 190-195: shouldRefreshURL reads the Stream after
\* IncrementErrorCount, SetLastError and SetState
PolicySees(before, after) == after

\* a failed refresh that forgets the URL the Session had
RefreshFailedClears(s) == SetStreamURL(s, 0)

\* refreshStreamURL, lines 249-252: the extractor's error is returned before
\* anything is set; handleStreamFailure, lines 197-199, logs it and goes on
RefreshFailed(s) == s

\* handleStreamFailure, lines 190-200: count the failure, consult the Refresh
\* Policy, refresh the URL when required (refreshStreamURL, lines 248-256)
HandleStreamFailure(t) ==
    /\ task[t].pc = "hsf"
    /\ LET s == Failed(heap[task[t].s], task[t].reason)
           refresh == shouldRefreshURL(PolicySees(heap[task[t].s], s), task[t].reason)
       IN IF refresh
          THEN \E r \in URLs \cup {0} :
                 /\ task' = [task EXCEPT ![t] =
                       [EnterReconnect(@, refresh) EXCEPT
                           !.err = IF r = 0 THEN "extract" ELSE "none"]]
                 /\ heap' = [heap EXCEPT ![task[t].s] =
                               IF r = 0 THEN RefreshFailed(s) ELSE SetStreamURL(s, r)]
          ELSE /\ task' = [task EXCEPT ![t] = EnterReconnect(@, refresh)]
               /\ heap' = [heap EXCEPT ![task[t].s] = s]
    /\ UNCHANGED <<streams, storage, mu, start, alive, path, prober,
                   ctxDone, streak, aside>>
    /\ NoReturn

\* a loop that grants one attempt more
ExhaustedLate(attempt) == attempt > MaxAttempts + 1

\* reconnectStream, line 262: the loop ends when attempt <= MaxAttempts fails
Exhausted(attempt) == attempt > MaxAttempts

\* reconnectStream, lines 262-276 and 300-302: the loop condition, the ctx check,
\* then the surviving process is killed
RcCheck(t) ==
    /\ task[t].pc = "rc_check"
    /\ UNCHANGED <<streams, storage, mu, start, path, prober,
                   ctxDone, streak, aside>>
    /\ NoReturn
    /\ IF Exhausted(task[t].attempt)
       THEN /\ task' = [task EXCEPT ![t] = Finished]
            /\ UNCHANGED alive
            /\ SetHeap([heap EXCEPT ![task[t].s] = SetState(@, "error")])
       ELSE IF ctxDone
       THEN /\ task' = [task EXCEPT ![t] = Finished]
            /\ UNCHANGED alive
            /\ SetHeap(heap)
       ELSE /\ alive' = KillByPID(alive, heap[task[t].s].pid)
            /\ task' = [task EXCEPT ![t].pc = "rs_lock"]
            /\ UNCHANGED heap

\* RestartStream, lines 270-284, under the lock: look the name up, stop the Session
RestartLocked(t) ==
    /\ UNCHANGED <<start, path, prober, ctxDone, streak, aside>>
    /\ NoReturn
    /\ LET n == heap[task[t].s].name
       IN IF streams[n] = NoStream
          THEN /\ task' = [task EXCEPT ![t] = RestartReturn(@, "notfound")]
               /\ UNCHANGED <<streams, storage, heap, alive>>
          ELSE /\ stopStream(n)
               /\ task' = [task EXCEPT ![t].pc = "rs_start"]
               /\ SetHeap(stopStreamHeap(n))

\* RestartStream, lines 267-284: look the name up, stop the Session, release the lock
RsLock(t) ==
    /\ task[t].pc = "rs_lock" /\ mu = Free
    /\ UNCHANGED mu
    /\ RestartLocked(t)

\* RestartStream, line 267: m.mu.Lock() on its own; the lock is held while
\* stopStream waits for the process
RsEnter(t) ==
    /\ task[t].pc = "rs_lock" /\ mu = Free
    /\ mu' = t
    /\ task' = [task EXCEPT ![t].pc = "rs_stop"]
    /\ UNCHANGED <<streams, storage, start, heap, alive, path, prober, ctxDone,
                   streak, aside>>
    /\ NoReturn

\* RestartStream, lines 270-284, reached with the lock held since RsEnter
RsStop(t) ==
    /\ task[t].pc = "rs_stop" /\ mu = t
    /\ mu' = Free
    /\ RestartLocked(t)

\* Manager.Stop, line 114: the caller finds m.mu held by RestartStream and waits
StopCall(n) ==
    /\ waiting = NoCall
    /\ mu \in CrowdIds /\ task[mu].pc = "rs_stop"
    /\ waiting' = [op |-> "Stop", name |-> n, registered |-> streams[n] # NoStream,
                   holder |-> mu, attempt |-> task[mu].attempt]
    /\ UNCHANGED <<streams, storage, mu, start, heap, alive, path, prober, task,
                   ctxDone, streak, calc, monitorRunning, server, files, logfile>>
    /\ NoReturn

\* Manager.Stop, lines 114-117: the waiting caller gets the lock and runs stopStream
StopEnter ==
    /\ waiting.op = "Stop" /\ mu = Free
    /\ stopStream(waiting.name)
    /\ cli' = [op |-> "Stop", name |-> waiting.name, res |-> stopStreamErr(waiting.name)]
    /\ waiting' = [waiting EXCEPT !.op = "returned"]
    /\ UNCHANGED <<mu, start, path, prober, task, ctxDone, streak, calc,
                   monitorRunning, server, files, logfile>>
    /\ SetHeap(stopStreamHeap(waiting.name))

\* RestartStream, line 285: m.Start(ctx, youtubeURL, name, port)
RsStart(t) ==
    /\ task[t].pc = "rs_start"
    /\ StartLock(t, heap[task[t].s].name)

\* reconnectStream, lines 293-297
RcSuccess(t) ==
    /\ task[t].pc = "rc_success"
    /\ task' = [task EXCEPT ![t] = Finished]
    /\ UNCHANGED <<streams, storage, mu, start, alive, path, prober,
                   ctxDone, streak, aside>>
    /\ NoReturn
    /\ SetHeap([heap EXCEPT ![task[t].s] =
                  SetState(ResetConsecutiveErrors(@), "running")])

\* reconnectStream, lines 283-290: the backoff delay elapses
RcWake(t) ==
    /\ task[t].pc = "rc_sleep"
    /\ task' = [task EXCEPT ![t].pc = "rc_check",
                            ![t].err = "none",
                            ![t].attempt = @ + 1,
                            ![t].backoff = nextBackoff(@)]
    /\ UNCHANGED <<streams, storage, mu, start, heap, alive, path, prober, ctxDone, streak, aside>>
    /\ NoReturn

\* reconnectStream, lines 284-285: ctx.Done ends the sleep and the sequence
RcSleepCancel(t) ==
    /\ task[t].pc = "rc_sleep" /\ ctxDone
    /\ task' = [task EXCEPT ![t] = Finished]
    /\ UNCHANGED <<streams, storage, mu, start, alive, path, prober, ctxDone, streak, aside>>
    /\ NoReturn
    /\ SetHeap(heap)

Threads == {CliId} \cup TaskIds

Next ==
    \/ \E n \in Names : CliStart(n)
    \/ \E th \in Threads : StartVerify(th)
    \/ \E n \in Names : Stop(n)
    \/ \E n \in Names : ForceReconnect(n)
    \/ \E n \in Names : RecoverStreams(n)
    \/ MonTick
    \/ HealthCheckFails
    \/ ServerRestart
    \/ RestartFailed
    \/ RestartAll
    \/ \E t \in TaskIds : restartStream(t)
    \/ MonExit
    \/ Cancel
    \/ \E th \in Probers, o \in ObjIds : ProbeRead(th, o)
    \/ \E th \in Probers : ProbeCheck(th)
    \/ \E t \in TaskIds : HandleStreamFailure(t)
    \/ \E t \in TaskIds : RcCheck(t)
    \/ \E t \in TaskIds : RsLock(t)
    \/ \E t \in TaskIds : RsStart(t)
    \/ \E t \in TaskIds : RcSuccess(t)
    \/ \E t \in TaskIds : RcWake(t)
    \/ \E t \in TaskIds : RcSleepCancel(t)
    \/ \E p \in alive : ProcessExit(p)
    \/ \E n \in Names, v \in PathStates : PathChange(n, v)
    \/ \E o \in ObjIds : Elapse(o)

Spec == Init /\ [][Next]_vars

(***************************************************************************)
(* The program with part of its environment held still                     *)
(***************************************************************************)
\* storage holds nothing from a previous run
InitFresh == Init /\ storage = [n \in Names |-> 0]

\* the Manager's API on its own: no probe loop is running
NextManager ==
    \/ \E n \in Names : CliStart(n)
    \/ StartVerify(CliId)
    \/ \E n \in Names : Stop(n)
    \/ \E n \in Names : RecoverStreams(n)
    \/ \E p \in alive : ProcessExit(p)
    \/ \E n \in Names, v \in PathStates : PathChange(n, v)

SpecManager == Init /\ [][NextManager]_vars

\* Manager and Monitor left to themselves after the caller's Start: nobody stops
\* or forces anything, the relay never gets to know a path, the refresh interval
\* does not elapse, the context is not cancelled
NextUnattended ==
    \/ \E n \in Names : CliStart(n)
    \/ \E th \in Threads : StartVerify(th)
    \/ MonTick
    \/ \E th \in Probers, o \in ObjIds : ProbeRead(th, o)
    \/ \E th \in Probers : ProbeCheck(th)
    \/ \E t \in TaskIds : HandleStreamFailure(t)
    \/ \E t \in TaskIds : RcCheck(t)
    \/ \E t \in TaskIds : RsLock(t)
    \/ \E t \in TaskIds : RsStart(t)
    \/ \E t \in TaskIds : RcSuccess(t)
    \/ \E t \in TaskIds : RcWake(t)
    \/ \E p \in alive : ProcessExit(p)

SpecUnattended == InitFresh /\ [][NextUnattended]_vars

\* the same with a caller that also stops Sessions and forces reconnections
NextMonitor ==
    \/ NextUnattended
    \/ \E n \in Names : Stop(n)
    \/ \E n \in Names : ForceReconnect(n)

SpecMonitor == InitFresh /\ [][NextMonitor]_vars

\* the same with the relay's paths appearing, becoming ready and disappearing
NextProbe ==
    \/ NextMonitor
    \/ \E n \in Names, v \in PathStates : PathChange(n, v)

SpecProbe == InitFresh /\ [][NextProbe]_vars

\* Manager and Monitor left to themselves until the supervision context is
\* cancelled, and from then on
NextShutdown ==
    \/ NextUnattended
    \/ Cancel
    \/ MonExit
    \/ \E t \in TaskIds : RcSleepCancel(t)

SpecShutdown == InitFresh /\ [][NextShutdown]_vars

\* the same where every goroutine that can run does run: a runnable goroutine is
\* scheduled, a sleep elapses, and a goroutine waiting for m.mu gets it (sync.Mutex
\* hands the lock to a waiter that has been starved)
FairSequence ==
    /\ \A t \in TaskIds :
          /\ WF_vars(HandleStreamFailure(t)) /\ WF_vars(RcCheck(t))
          /\ SF_vars(RsLock(t)) /\ SF_vars(RsStart(t))
          /\ WF_vars(RcSuccess(t)) /\ WF_vars(RcWake(t))
    /\ \A th \in Threads : WF_vars(StartVerify(th))

SpecSequence == InitFresh /\ [][NextShutdown]_vars /\ FairSequence

\* Manager and Monitor left to themselves, with room for one goroutine more than
\* a Session needs: `go m.handleStreamFailure` (line 126) is not held back when a
\* goroutine works for the Session already
NextCrowd ==
    \/ \E n \in Names : CliStart(n)
    \/ \E th \in {CliId} \cup CrowdIds : StartVerify(th)
    \/ MonTick
    \/ \E th \in Probers, o \in ObjIds : ProbeRead(th, o)
    \/ \E th \in Probers : ProbeCheckIn(th, CrowdIds)
    \/ \E t \in CrowdIds : HandleStreamFailure(t)
    \/ \E t \in CrowdIds : RcCheck(t)
    \/ \E t \in CrowdIds : RsLock(t)
    \/ \E t \in CrowdIds : RsStart(t)
    \/ \E t \in CrowdIds : RcSuccess(t)
    \/ \E t \in CrowdIds : RcWake(t)
    \/ \E p \in alive : ProcessExit(p)

SpecCrowd == InitFresh /\ [][NextCrowd]_vars

\* Manager and Monitor left to themselves, RestartStream taken lock by lock, and a
\* caller that asks for a Stop while RestartStream holds the lock
NextStopRace ==
    \/ \E n \in Names : CliStart(n)
    \/ \E th \in Threads : StartVerify(th)
    \/ MonTick
    \/ \E th \in Probers, o \in ObjIds : ProbeRead(th, o)
    \/ \E th \in Probers : ProbeCheck(th)
    \/ \E t \in TaskIds : HandleStreamFailure(t)
    \/ \E t \in TaskIds : RcCheck(t)
    \/ \E t \in TaskIds : RsEnter(t)
    \/ \E t \in TaskIds : RsStop(t)
    \/ \E t \in TaskIds : RsStart(t)
    \/ \E t \in TaskIds : RcSuccess(t)
    \/ \E t \in TaskIds : RcWake(t)
    \/ \E p \in alive : ProcessExit(p)
    \/ \E n \in Names : StopCall(n)
    \/ StopEnter

SpecStopRace == InitFresh /\ [][NextStopRace]_vars

\* Manager and Monitor left to themselves with a monitor that is stopped, whose
\* context is cancelled by a signal, and that is started again
NextLifecycle ==
    \/ NextShutdown
    \/ MonStop
    \/ MonStart

SpecLifecycle == InitFresh /\ [][NextLifecycle]_vars

\* Manager and Monitor left to themselves while the refresh interval of a Session
\* can elapse
NextRefresh ==
    \/ NextUnattended
    \/ \E o \in ObjIds : Elapse(o)

SpecRefresh == InitFresh /\ [][NextRefresh]_vars

\* Manager and Monitor left to themselves with a relay whose paths appear, become
\* ready and disappear
NextRelay ==
    \/ NextUnattended
    \/ \E n \in Names, v \in PathStates : PathChange(n, v)

SpecRelay == InitFresh /\ [][NextRelay]_vars

\* Manager and Monitor left to themselves with a relay server that can fail its
\* health check at any tick
NextServer ==
    \/ NextUnattended
    \/ HealthCheckFails
    \/ ServerRestart
    \/ RestartFailed
    \/ RestartAll
    \/ \E t \in TaskIds : restartStream(t)

SpecServer == InitFresh /\ [][NextServer]_vars

(***************************************************************************)
(* Pure functions under evaluation                                         *)
(***************************************************************************)
\* everything but calc stays as constructed
Still ==
    UNCHANGED <<streams, storage, mu, start, heap, alive, path, cli, prober,
                task, ctxDone, streak, waiting, monitorRunning,
                server, files, logfile>>

\* reconnectStream, line 260: backoff := InitialDelay, for any configured
\* initial delay up to the maximum; d is the delay slept after the n-th failure
InitBackoff ==
    /\ Constructed /\ storage = [n \in Names |-> 0] /\ Apart
    /\ calc \in {[fn |-> "nextBackoff", d1 |-> d, n |-> 1, d |-> d] : d \in 1..MaxDelay}

\* reconnectStream, lines 282-290, in a sequence whose attempts all fail: the
\* delay is slept, then backoff = m.nextBackoff(backoff)
NextDelay ==
    /\ calc.fn = "nextBackoff" /\ calc.n < DefaultMaxAttempts
    /\ calc' = [calc EXCEPT !.n = @ + 1, !.d = nextBackoff(@)]
    /\ Still

SpecBackoff == InitBackoff /\ [][NextDelay]_vars

\* a Stream as shouldRefreshURL reads it: whether time.Since(LastURLRefresh)
\* exceeds the interval, and ConsecutiveErrors
PolicyInput(stale, errors) ==
    [NoObject EXCEPT !.stale = stale, !.consecutiveErrors = errors]

\* the arguments of m.shouldRefreshURL(s, reason): every combination of the
\* interval elapsed or not, a count around the threshold and a probe reason
InitPolicy ==
    /\ Constructed /\ storage = [n \in Names |-> 0] /\ Apart
    /\ calc \in {[fn |-> "shouldRefreshURL", stale |-> st, errors |-> e,
                   reason |-> r, res |-> "pending"] :
                      st \in BOOLEAN, e \in 0..(2 * MaxConsecutiveErrors + 1),
                      r \in Reasons}

\* handleStreamFailure, line 195: m.shouldRefreshURL(s, reason) is evaluated
EvalPolicy ==
    /\ calc.fn = "shouldRefreshURL" /\ calc.res = "pending"
    /\ calc' = [calc EXCEPT !.res =
                  IF shouldRefreshURL(PolicyInput(calc.stale, calc.errors), calc.reason)
                  THEN "refresh" ELSE "keep"]
    /\ Still

SpecPolicy == InitPolicy /\ [][EvalPolicy]_vars

\* a text in capital letters, and with a capital first letter
UpperChar(c) ==
    IF \E i \in 1..Len(LowerCase) : LowerCase[i] = c
    THEN UpperCase[CHOOSE i \in 1..Len(LowerCase) : LowerCase[i] = c]
    ELSE c
ToUpper(str) == [i \in 1..Len(str) |-> UpperChar(str[i])]
Capitalised(str) == [i \in 1..Len(str) |-> IF i = 1 THEN UpperChar(str[i]) ELSE str[i]]
\* a text that has lost its second character
Damaged(str) == [i \in 1..(Len(str) - 1) |-> IF i = 1 THEN str[1] ELSE str[i + 1]]

\* what stands before and after the tested part of an error message
Before == { <<>>, <<"x">>, <<"H", "T", "T", "P", " ">> }
After == { <<>>, <<"!">>, <<" ", "E", "r", "r">> }

\* the argument of m.hasURLExpiredError(errMsg): every pattern in small letters,
\* in capitals, capitalised (hit) and with a character missing (no hit), alone
\* and inside other text
InitClassifier ==
    /\ Constructed /\ storage = [n \in Names |-> 0] /\ Apart
    /\ calc \in
         {[fn |-> "hasURLExpiredError", text |-> b \o c \o a, hit |-> TRUE,
           res |-> "pending"] :
              b \in Before, a \in After,
              c \in UNION {{Patterns[k], ToUpper(Patterns[k]), Capitalised(Patterns[k])} :
                              k \in 1..Len(Patterns)}}
         \cup
         {[fn |-> "hasURLExpiredError", text |-> b \o c \o a, hit |-> FALSE,
           res |-> "pending"] :
              b \in Before, a \in After,
              c \in {Damaged(Patterns[k]) : k \in 1..Len(Patterns)}}

\* hasURLExpiredError, lines 227-245, is evaluated
EvalClassifier ==
    /\ calc.fn = "hasURLExpiredError" /\ calc.res = "pending"
    /\ calc' = [calc EXCEPT !.res = IF Classify(calc.text) THEN "invalid" ELSE "generic"]
    /\ Still

SpecClassifier == InitClassifier /\ [][EvalClassifier]_vars

(***************************************************************************)
(* MediaMTXServer (internal/server/mediamtx.go) on its own. Start, Stop,   *)
(* IsRunning and the exit watcher's last lines run under s.mu, so each is  *)
(* one step; a process can exit between any two of them.                   *)
(***************************************************************************)
\* a server process is gone: cmd.Wait() returns in the watcher that waits for it
Exited(s, p) ==
    [s EXCEPT !.procs = @ \ {p},
              !.watch = [q \in ServerPids |->
                           IF q = p /\ @[q] = "wait" THEN "woken" ELSE @[q]]]

\* stopLocked, lines 145-194
stopLocked(s) ==
    IF ~s.running THEN s
    ELSE [Exited(s, s.pid) EXCEPT !.running = FALSE, !.pid = 0, !.pidFile = 0]

\* Start, lines 124-130: `go func() { cmd.Wait(); ...; s.running = false }()`
Started(s, p) == [s EXCEPT !.watch[p] = "wait"]

\* Start, lines 45-133: the records Start can leave. With the flag set nothing
\* happens; a live process named by the pid file that answers the health check is
\* adopted (isAlreadyRunning, lines 373-396); otherwise a process is started, and
\* when it does not get ready in time it is stopped again (lines 118-121)
StartOutcomes(s) ==
    IF s.running THEN {s}
    ELSE LET seen == IF s.pidFile \in s.procs THEN [s EXCEPT !.pid = s.pidFile] ELSE s
             p == CHOOSE q \in ServerPids \ UsedPids(s) : \A r \in ServerPids \ UsedPids(s) : q <= r
             up == [seen EXCEPT !.procs = @ \cup {p}, !.used = @ \cup {p}, !.pid = p,
                                !.pidFile = p, !.running = TRUE]
         IN (IF s.pidFile \in s.procs THEN {[seen EXCEPT !.running = TRUE]} ELSE {})
            \cup {seen}
            \cup (IF ServerPids \ UsedPids(s) = {} THEN {}
                  ELSE {Started(up, p), stopLocked(up)})

\* MediaMTXServer.Start called through the API (runStart, runServerStart)
SrvStart ==
    /\ server.pc = "idle"
    /\ server' \in StartOutcomes(server)
    /\ UNCHANGED <<program, calc, files, logfile>>

\* MediaMTXServer.Stop, lines 136-141
SrvStop ==
    /\ server' = [stopLocked(server) EXCEPT !.fresh = 0]
    /\ UNCHANGED <<program, calc, files, logfile>>

\* Restart, lines 197-201: Stop has returned, the caller sleeps one second
SrvRestartStop ==
    /\ server.pc = "idle"
    /\ server' = [stopLocked(server) EXCEPT !.fresh = 0, !.pc = "restart"]
    /\ UNCHANGED <<program, calc, files, logfile>>

\* Restart, line 202: Start; fresh is the process a successful Restart leaves
SrvRestartStart ==
    /\ server.pc = "restart"
    /\ \E r \in StartOutcomes(server) :
         server' = [r EXCEPT !.pc = "idle", !.fresh = IF r.running THEN r.pid ELSE 0]
    /\ UNCHANGED <<program, calc, files, logfile>>

\* the server process exits by itself
SrvExit(p) ==
    /\ p \in server.procs
    /\ server' = Exited(server, p)
    /\ UNCHANGED <<program, calc, files, logfile>>

\* Start, lines 127-129: the exit watcher of process p takes s.mu and clears the flag
SrvWatcher(p) ==
    /\ server.watch[p] = "woken"
    /\ server' = [server EXCEPT !.running = FALSE, !.watch[p] = "none"]
    /\ UNCHANGED <<program, calc, files, logfile>>

\* IsRunning, lines 206-228: the flag is cleared when the process is gone
SrvIsRunning ==
    /\ server.running /\ server.pid > 0 /\ server.pid \notin server.procs
    /\ server' = [server EXCEPT !.running = FALSE]
    /\ UNCHANGED <<program, calc, files, logfile>>

NextServerFlag ==
    \/ SrvStart
    \/ SrvStop
    \/ SrvRestartStop
    \/ SrvRestartStart
    \/ \E p \in ServerPids : SrvExit(p)
    \/ \E p \in ServerPids : SrvWatcher(p)
    \/ SrvIsRunning

SpecServerFlag == InitFresh /\ [][NextServerFlag]_vars

(***************************************************************************)
(* FileStorage (internal/storage/file.go) on its own. FileStorage.mu is a  *)
(* sync.RWMutex, which is not reentrant: RLock and Lock wait while a       *)
(* writer holds it, whoever the writer is. A method called directly takes  *)
(* and releases the lock within one step; Cleanup holds the write lock     *)
(* from line 223 to its return and calls List and Delete in between.       *)
(***************************************************************************)
\* the stored entries whose recorded process is not running (Cleanup, lines 230-241)
Orphans(f) == f.entries \cap f.dead

\* Cleanup, line 246 with the deferred Unlock of line 224
CleanupReturns(f, th) ==
    [f EXCEPT !.mu = "free", !.pc[th] = "idle", !.todo[th] = {}]

\* Save, lines 52-76, called directly with the entry of a stream that has just
\* been started: the entry exists and records a running process
StoreSave(th, n) ==
    /\ files.pc[th] = "idle" /\ files.mu = "free"
    /\ files' = [files EXCEPT !.entries = @ \cup {n}, !.dead = @ \ {n}]
    /\ UNCHANGED <<program, calc, server, logfile>>

\* the process an entry records exits
StoreProcessExit(n) ==
    /\ n \in files.entries \ files.dead
    /\ files' = [files EXCEPT !.dead = @ \cup {n}]
    /\ UNCHANGED <<program, calc, server, logfile>>

\* Cleanup, lines 222-224: s.mu.Lock()
StoreCleanup(th) ==
    /\ files.pc[th] = "idle" /\ files.mu = "free"
    /\ files' = [files EXCEPT !.mu = th, !.pc[th] = "list"]
    /\ UNCHANGED <<program, calc, server, logfile>>

\* List, lines 123-154: s.mu.RLock() is granted when no writer holds the lock.
\* Called directly it returns the entries; called by Cleanup (line 226) it is
\* followed by the scan of lines 230-243, and Cleanup returns when nothing is to
\* be deleted
StoreList(th) ==
    /\ files.pc[th] \in {"idle", "list"}
    /\ files.mu = "free"
    /\ files' = IF files.pc[th] = "idle" THEN [files EXCEPT !.listed[th] = files.entries]
                ELSE IF Orphans(files) = {} THEN CleanupReturns(files, th)
                ELSE [files EXCEPT !.pc[th] = "scan", !.todo[th] = Orphans(files)]
    /\ UNCHANGED <<program, calc, server, logfile>>

\* Delete, lines 101-120: s.mu.Lock() is granted when the lock is free. Called
\* directly it removes the entry; called by Cleanup (lines 237, 240) it removes
\* the next orphan, and Cleanup returns after the last one
StoreDelete(th, n) ==
    /\ \/ files.pc[th] = "idle"
       \/ files.pc[th] = "scan" /\ n \in files.todo[th]
    /\ files.mu = "free"
    /\ LET f == [files EXCEPT !.entries = @ \ {n}, !.dead = @ \ {n}]
       IN files' = IF files.pc[th] = "idle" THEN f
                   ELSE IF files.todo[th] = {n} THEN CleanupReturns(f, th)
                   ELSE [f EXCEPT !.todo[th] = @ \ {n}]
    /\ UNCHANGED <<program, calc, server, logfile>>

NextStorage ==
    \/ \E th \in StoreThreads, n \in StoreNames : StoreSave(th, n)
    \/ \E n \in StoreNames : StoreProcessExit(n)
    \/ \E th \in StoreThreads : StoreCleanup(th)
    \/ \E th \in StoreThreads : StoreList(th)
    \/ \E th \in StoreThreads, n \in StoreNames : StoreDelete(th, n)

\* a goroutine inside FileStorage goes on whenever the lock lets it
FairStorage ==
    \A th \in StoreThreads :
        /\ WF_vars(files.pc[th] # "idle" /\ StoreList(th))
        /\ WF_vars(files.pc[th] # "idle" /\ \E n \in StoreNames : StoreDelete(th, n))

SpecStorage == InitFresh /\ [][NextStorage]_vars /\ FairStorage

(***************************************************************************)
(* StreamLogger (internal/logger/stream_logger.go) on its own. The log     *)
(* file is a sequence of characters: "[" stands for the prefix             *)
(* "[timestamp] [LEVEL] " of a line, "x" for any other character of the    *)
(* formatted message, "\n" for a newline, which a message may contain.     *)
(* Log holds StreamLogger.mu from its first to its last statement, and     *)
(* LoggerManager.GetLogger hands out one logger per stream, so Log calls   *)
(* on one file do not interleave.                                          *)
(***************************************************************************)
MsgChars == {"x", "\n"}
Messages == UNION {[1..k -> MsgChars] : k \in 0..MaxMsg}

\* strings.Split(s, "\n"): the pieces between the newlines, a last piece after
\* the last newline included (the empty string gives one empty piece)
RECURSIVE SplitFrom(_, _, _, _)
SplitFrom(s, i, cur, acc) ==
    IF i > Len(s) THEN Append(acc, cur)
    ELSE IF s[i] = "\n" THEN SplitFrom(s, i + 1, <<>>, Append(acc, cur))
    ELSE SplitFrom(s, i + 1, Append(cur, s[i]), acc)
Split(s) == SplitFrom(s, 1, <<>>, <<>>)

\* rotate, lines 85-88: remove the empty trailing piece
DropTrailingEmpty(lines) ==
    IF Len(lines) > 0 /\ lines[Len(lines)] = <<>>
    THEN SubSeq(lines, 1, Len(lines) - 1) ELSE lines

\* rotate, line 96: lines[len(lines)-maxLines:]
KeepFirst(lines, n) == SubSeq(lines, 1, n)
Keep(lines, n) == SubSeq(lines, Len(lines) - n + 1, Len(lines))

\* rotate, lines 105-107: every line followed by a newline
RECURSIVE WriteLines(_)
WriteLines(lines) ==
    IF lines = <<>> THEN <<>>
    ELSE <<>> \o Head(lines) \o <<"\n">> \o WriteLines(Tail(lines))

\* rotate, lines 77-109, on a file that can be read and created
rotate(content, maxLines) ==
    LET lines == DropTrailingEmpty(Split(content))
    IN IF Len(lines) <= maxLines THEN content
       ELSE WriteLines(Keep(lines, maxLines))

\* Log, lines 41-59: format the line, append it to the file, rotate
Log(msg) ==
    /\ logfile.calls < MaxLogs
    /\ LET line == <<"[">> \o msg \o <<"\n">>
       IN logfile' = [logfile EXCEPT
              !.content = rotate(logfile.content \o line, logfile.maxLines),
              !.logged = @ \o line,
              !.calls = @ + 1]
    /\ UNCHANGED <<program, calc, server, files>>

NextLog == \E msg \in Messages : Log(msg)

InitLog ==
    /\ Constructed /\ storage = [n \in Names |-> 0]
    /\ calc = NoCalc /\ server = NoServer /\ files = NoFiles
    /\ logfile \in {NewStreamLogger(k) : k \in 0..LogMaxLines}

SpecLog == InitLog /\ [][NextLog]_vars

(***************************************************************************)
(* Properties                                                              *)
(***************************************************************************)
\* the name a goroutine works for
TaskName(t) == heap[task[t].s].name

\* Monitor.Stop, lines 73-79, has returned: cancel() was called and wg.Wait() has
\* seen the run goroutine, the only one added to wg (line 58), return
StopReturned == ctxDone /\ prober["mon"].pc = "stopped"

\* C1: a restart attempt k >= 2 of a reconnection sequence fails only when a
\* collaborator fails (the extractor, the process start, the confirmation window)
\* or another caller has registered the name meanwhile; otherwise attempt k
\* brings the Session back to Running.
C1_RetryFailsOnlyByCollaborator ==
    \A t \in TaskIds :
        (task[t].pc = "rc_sleep" /\ task[t].attempt >= 2)
            => task[t].err \in {"extract", "ffmpeg", "premature", "exists"}

\* C2: when every attempt of a reconnection sequence has failed, the Session the
\* sequence worked for is still in the registry under its name.
C2_ExhaustedStaysRegistered ==
    \A t \in TaskIds :
        (task[t].pc = "rc_check" /\ task[t].attempt > MaxAttempts)
            => streams[TaskName(t)] = task[t].s

\* C3: once Stop(name) has been requested during a backoff sleep of a
\* reconnection sequence for the name, the sequence does not wait the sleep out
\* and go on to a further restart attempt.
C3_StopShortCircuits ==
    [][\A t \in TaskIds :
          (task[t].pc = "rc_sleep" /\ cli.op = "Stop" /\ cli.name = TaskName(t))
              => task'[t].pc # "rc_check"]_vars

\* C4: from the moment the probe loop has spawned handleStreamFailure for a
\* Session, no health-check cycle gets to evaluate that Session.
C4_NoProbeWhileHandled ==
    \A th \in Probers, t \in TaskIds :
        (task[t].pc = "hsf" /\ task[t].reason # ReasonForced)
            => ~(prober[th].pc = "check" /\ prober[th].cur = task[t].s)

\* C5: a step of a health-check cycle goes on to the collaborator queries only
\* for a Session it has read as Running, and changes no field of any Stream
\* other than the one it is checking.
C5_OnlyRunningProbed ==
    [][\A th \in Probers :
          prober'[th] # prober[th]
              => /\ prober'[th].pc = "check"
                      => /\ prober[th].pc = "loop"
                         /\ heap[prober'[th].cur].state = "running"
                 /\ \A o \in ObjIds :
                      (heap'[o] # heap[o] /\ heap'[o] # NoObject)
                          => prober[th].pc = "check" /\ o = prober[th].cur]_vars

\* C5 (witness): a cycle whose snapshot holds a Session that is not Running
C5_Witness ==
    \E th \in Probers :
        /\ prober[th].pc = "loop"
        /\ \E o \in prober[th].todo : heap[o].state \in {"reconnecting", "stopping"}

\* C6 (as stated): Stop(name) for a name that is neither registered nor stored
\* returns no error and leaves the registry unchanged.
C6_StopIdempotent ==
    [][\A n \in Names :
          (cli'.op = "Stop" /\ cli'.name = n /\ streams[n] = NoStream /\ storage[n] = 0)
              => cli'.res = "ok" /\ streams' = streams]_vars

\* C6 (amended): Stop(name) for a name that is neither registered nor stored
\* returns the error "not found" and leaves registry, storage and processes
\* unchanged.
C6_StopUnknownNotFound ==
    [][\A n \in Names :
          (cli'.op = "Stop" /\ cli'.name = n /\ streams[n] = NoStream /\ storage[n] = 0)
              => /\ cli'.res = "notfound"
                 /\ streams' = streams /\ storage' = storage /\ alive' = alive]_vars

\* C6 (witness): Stop has returned for a name it did not find
C6_Witness ==
    /\ cli.op = "Stop" /\ cli.res = "notfound"
    /\ streams[cli.name] = NoStream /\ storage[cli.name] = 0

\* C7 (as stated): when Start has registered a Session as Running, the relay
\* reports the Session's path as ready.
C7_RunningOnlyWhenPathReady ==
    (cli.op = "Start" /\ cli.res = "ok") => path[cli.name] = "ready"

\* C7 (amended): when Start has registered a Session as Running, the Session's
\* transcoding process has been confirmed alive; the path's status plays no part.
C7_RunningOnlyWhenProcessAlive ==
    (cli.op = "Start" /\ cli.res = "ok")
        => /\ streams[cli.name] # NoStream
           /\ heap[streams[cli.name]].state = "running"
           /\ IsProcessAlive(heap[streams[cli.name]].pid)

\* C7 (witness): Start has registered a Running Session whose path is not ready
C7_Witness ==
    /\ cli.op = "Start" /\ cli.res = "ok"
    /\ path[cli.name] # "ready"
    /\ heap[streams[cli.name]].state = "running"

\* C8: a restart attempt of a failure handling whose Refresh Policy answered
\* "not required" does not call the extractor: no such goroutine is inside Start
\* with a URL the extractor has just returned.
C8_ExtractOnlyWhenRefreshRequired ==
    \A t \in TaskIds :
        (task[t].pc = "in_start" /\ mu = t /\ start.url # 0) => task[t].refresh

\* C9: after a successful reconnection the error_count seen through the registry
\* under the Session's name is not smaller than the Session's error_count before.
C9_ErrorCountNeverDecreases ==
    \A t \in TaskIds :
        (task[t].pc = "rc_success" /\ streams[TaskName(t)] # NoStream)
            => heap[streams[TaskName(t)]].errorCount >= heap[task[t].s].errorCount

\* C10: when the failure handling of a registered Session runs for the
\* max_consecutive_errors-th unhealthy verdict in a row, the Refresh Policy requires
\* a refresh, also with the refresh interval not elapsed and a generic reason.
C10_RefreshAfterConsecutiveFailures ==
    [][\A t \in TaskIds :
          (/\ task[t].pc = "hsf" /\ task'[t].pc = "rc_check"
           /\ streams[TaskName(t)] = task[t].s
           /\ task[t].reason = ReasonProcess
           /\ ~heap[task[t].s].stale
           /\ streak[TaskName(t)] >= MaxConsecutiveErrors)
              => task'[t].refresh]_vars

\* C11: once a Session's state is Error, no step changes that Session's state to
\* Reconnecting or to Running: by a probe, by ForceReconnect or by a reconnection
\* goroutine that still holds the Session.
C11_ErrorIsTerminal ==
    [][\A o \in ObjIds :
          heap[o].state = "error"
              => heap'[o].state \notin {"reconnecting", "running"}]_vars

\* C12: the registry-wide lock is never held across the extractor call, the
\* process start and the sleep of the confirmation window: no thread that holds
\* the lock is inside Start between the extraction and the end of the sleep.
C12_LockOnlyForMapAccess ==
    \A th \in Threads : mu = th => start.pc # "sleep"

C14_CancelStopsSupervision ==
    [][ctxDone =>
          /\ \A t \in TaskIds :
                task[t].pc \in {"rc_sleep", "rc_check"} => task'[t].pc # "rs_lock"
          /\ prober["mon"].pc = "idle" => prober'["mon"].pc \in {"idle", "stopped"}]_vars

\* C15: after Monitor.Stop has returned, a goroutine the monitor spawned for
\* failure handling takes no step other than returning, and the state of the
\* Session it holds does not change.
C15_NoTaskAfterStop ==
    [][StopReturned =>
          \A t \in TaskIds :
              task[t].pc # "unborn"
                  => /\ task'[t] \in {task[t], Finished}
                     /\ heap'[task[t].s].state \in {heap[task[t].s].state, NoObject.state}]_vars

\* the probe loop is inside a cycle whose top-level health check has failed
Recovering(th) == prober[th].pc \in {"srv", "srv_ok", "srv_err"}

\* C16: a cycle whose top-level health check has failed never gets to the
\* per-Session part: it reads and checks no Session, and none of its steps changes a
\* Stream, counts an unhealthy verdict or starts handleStreamFailure.
C16_ServerFailureSkipsSessions ==
    [][\A th \in Probers :
          Recovering(th)
              => /\ prober'[th].pc \in {"srv", "srv_ok", "srv_err", "idle"}
                 /\ prober'[th] # prober[th]
                      => /\ heap' = heap
                         /\ streak' = streak
                         /\ \A t \in TaskIds : task'[t].pc = "hsf" => task[t].pc = "hsf"]_vars

\* C16 (witness): the cycle is in server recovery while a registered Running
\* Session has lost its process
C16_Witness ==
    /\ prober["mon"].pc = "srv"
    /\ \E n \in Names :
         /\ streams[n] # NoStream
         /\ heap[streams[n]].state = "running"
         /\ ~IsProcessAlive(heap[streams[n]].pid)

C18_FailedRestartTouchesNothing ==
    /\ [][\A th \in Probers :
            (\/ prober[th].pc = "srv" /\ prober'[th].pc = "srv_err"
             \/ prober[th].pc = "srv_err" /\ prober'[th] # prober[th])
                => /\ prober[th].pc = "srv_err" => prober'[th] = IdleProber
                   /\ task' = task /\ heap' = heap
                   /\ streams' = streams /\ storage' = storage /\ alive' = alive]_vars
    /\ [](prober["mon"].pc = "idle" => ENABLED HealthCheckFails)
    /\ [](prober["mon"].pc = "srv" => ENABLED ServerRestart)

\* C18 (witness): the server restart has failed while a Session is registered
C18_Witness ==
    /\ prober["mon"].pc = "srv_err"
    /\ \E n \in Names : streams[n] # NoStream

\* C19: when the extractor fails in the refresh step of handleStreamFailure, the
\* Session keeps the URL and the refresh time it had, the goroutine enters the
\* reconnection sequence at attempt 1 and, with the context not cancelled, its
\* next step is the first restart attempt.
C19_FailedRefreshDoesNotAbort ==
    /\ [][\A t \in TaskIds :
            (task[t].pc = "hsf" /\ task'[t] # task[t] /\ task'[t].err = "extract")
                => /\ task'[t].pc = "rc_check" /\ task'[t].attempt = 1
                   /\ task'[t].s = task[t].s
                   /\ heap'[task[t].s].url = heap[task[t].s].url
                   /\ heap'[task[t].s].stale = heap[task[t].s].stale]_vars
    /\ [][\A t \in TaskIds :
            (/\ task[t].pc = "rc_check" /\ task[t].err = "extract"
             /\ task'[t] # task[t] /\ ~ctxDone)
                => task'[t].pc = "rs_lock" /\ task'[t].attempt = 1]_vars

\* C19 (witness): the first restart attempt is under way after a failed refresh,
\* for a Session that still has its URL, which is still due for a refresh
C19_Witness ==
    \E t \in TaskIds :
        /\ task[t].pc = "rs_lock" /\ task[t].attempt = 1
        /\ task[t].refresh /\ task[t].err = "extract"
        /\ heap[task[t].s].url \in URLs /\ heap[task[t].s].stale

DefaultDelays == <<5, 10, 20, 40, 80, 160, 300, 300, 300, 300>>

\* the smaller of two numbers
Min(a, b) == IF a < b THEN a ELSE b

\* C21: the delay slept after the n-th failed attempt is the initial delay
\* multiplied n-1 times by the multiplier, clamped at the maximum delay; with the
\* defaults (5 s, 2.0, 300 s) the ten delays are 5, 10, 20, 40, 80, 160, 300, 300,
\* 300, 300 seconds.
C21_BackoffSequence ==
    calc.fn = "nextBackoff"
        => /\ calc.d = Min(calc.d1 * Multiplier ^ (calc.n - 1), MaxDelay)
           /\ calc.d1 = InitialDelay => calc.d = DefaultDelays[calc.n]

\* C21 (witness): the tenth delay of the default sequence
C21_Witness ==
    /\ calc.fn = "nextBackoff" /\ calc.d1 = InitialDelay
    /\ calc.n = DefaultMaxAttempts /\ calc.d = MaxDelay

\* C22: the Refresh Policy answers "refresh required" exactly when the refresh
\* interval has elapsed, or consecutive_errors has reached max_consecutive_errors,
\* or the Failure Classifier marks the reason URL-invalid; with the count equal to
\* the threshold, a generic reason and the interval not elapsed it answers
\* "refresh required".
C22_RefreshPolicy ==
    (calc.fn = "shouldRefreshURL" /\ calc.res # "pending")
        => /\ calc.res = "refresh" <=> \/ calc.stale
                                       \/ calc.errors >= MaxConsecutiveErrors
                                       \/ hasURLExpiredError(calc.reason)
           /\ (/\ ~calc.stale /\ calc.errors = MaxConsecutiveErrors
               /\ calc.reason = ReasonProcess) => calc.res = "refresh"

\* C22 (witness): the policy has answered for the count at the threshold, a
\* generic reason and the interval not elapsed
C22_Witness ==
    /\ calc.fn = "shouldRefreshURL" /\ calc.res = "refresh"
    /\ ~calc.stale /\ calc.errors = MaxConsecutiveErrors
    /\ calc.reason = ReasonProcess /\ ~hasURLExpiredError(ReasonProcess)

\* C23: the Failure Classifier marks a text URL-invalid exactly when the text, in
\* small letters, contains one of the seven patterns: a pattern written in any
\* letter case, alone or inside other text, is a hit, a pattern with a character
\* missing is not; every text containing "403" is URL-invalid; the evaluation
\* changes nothing of the program's state.
C23_Classifier ==
    /\ [](calc.fn = "hasURLExpiredError" /\ calc.res # "pending"
            => /\ calc.res = "invalid" <=> calc.hit
               /\ Contains(calc.text, <<"4", "0", "3">>) => calc.res = "invalid")
    /\ [][calc.fn = "hasURLExpiredError"
            => UNCHANGED <<streams, storage, mu, start, heap, alive, path, prober,
                           task, ctxDone, streak>>]_vars

\* C23 (witness): "403" inside other text and a pattern in capitals have been
\* classified
C23_Witness ==
    /\ calc.fn = "hasURLExpiredError" /\ calc.res = "invalid"
    /\ \/ calc.text = <<"H", "T", "T", "P", " ", "4", "0", "3", "!">>
       \/ calc.text = <<"E", "X", "P", "I", "R", "E", "D">>

\* the step is a probe by th of the registered Session o whose process and path
\* checks pass
PassesChecks(th, o) ==
    /\ prober[th].pc = "check" /\ prober[th].cur = o /\ prober'[th] # prober[th]
    /\ streams[heap[o].name] = o
    /\ FirstFailure(heap[o]) = ""

\* the step starts failure handling for o with the given reason
Reported(o, reason) ==
    \E t \in TaskIds :
        /\ task[t].pc = "unborn" /\ task'[t].pc = "hsf"
        /\ task'[t].s = o /\ task'[t].reason = reason

C25_ChecksInOrder ==
    [][\A th \in Probers, o \in ObjIds :
          (/\ prober[th].pc = "check" /\ prober[th].cur = o
           /\ prober'[th] # prober[th]
           /\ \/ ~IsProcessAlive(heap[o].pid)
              \/ path[heap[o].name] # "ready")
              => /\ heap'[o].lastBytes = heap[o].lastBytes
                 /\ heap'[o].stallCount = heap[o].stallCount
                 /\ Reported(o, IF ~IsProcessAlive(heap[o].pid) THEN ReasonProcess
                                ELSE IF path[heap[o].name] = "absent"
                                THEN ReasonPathNotFound
                                ELSE ReasonPathNotReady)]_vars

\* C25 (witness): a probe has reported the dead process of a Session whose path is
\* not ready either and whose stall_count is not 0
C25_Witness ==
    \E t \in TaskIds :
        /\ task[t].pc = "hsf" /\ task[t].reason = ReasonProcess
        /\ path[TaskName(t)] # "ready"
        /\ heap[task[t].s].stallCount > 0

\* C26: a probe that judges a registered Session healthy sets its
\* consecutive_errors to 0 and stamps last_checked, and leaves its state,
\* error_count and last_error as they were.
C26_HealthyProbeFrame ==
    [][\A th \in Probers, o \in ObjIds :
          (PassesChecks(th, o) /\ ~Reported(o, ReasonStalled))
              => /\ heap'[o].consecutiveErrors = 0
                 /\ heap'[o].checked
                 /\ heap'[o].state = heap[o].state
                 /\ heap'[o].errorCount = heap[o].errorCount
                 /\ heap'[o].lastError = heap[o].lastError]_vars

\* C26 (witness): a Session that failure handling has counted a failure for, and
\* holds at its first attempt, has since been judged healthy by a probe
C26_Witness ==
    \E t \in TaskIds :
        /\ task[t].pc = "rc_check" /\ task[t].attempt = 1
        /\ heap[task[t].s].errorCount > 0 /\ heap[task[t].s].lastError # "none"
        /\ heap[task[t].s].consecutiveErrors = 0 /\ heap[task[t].s].checked

\* the goroutine is inside the reconnection sequence
InSequence(t) == task[t].pc \in {"rc_check", "rs_lock", "rs_start", "in_start", "rc_sleep", "rc_success"}

\* C27: handleStreamFailure adds one to error_count and consecutive_errors,
\* records the reason in last_error, sets the state to Reconnecting, then asks the
\* Refresh Policy once, with the counts already incremented, leaves the URL alone
\* when the policy does not ask for a refresh, and enters the reconnection
\* sequence at attempt 1; no later step of the sequence changes the policy's
\* answer.
C27_FailureHandlingOrder ==
    /\ [][\A t \in TaskIds :
            (task[t].pc = "hsf" /\ task'[t] # task[t])
                => LET s == heap[task[t].s]
                       s2 == heap'[task[t].s]
                   IN /\ s2.errorCount = s.errorCount + 1
                      /\ s2.consecutiveErrors = s.consecutiveErrors + 1
                      /\ s2.lastError = task[t].reason
                      /\ s2.state = "reconnecting"
                      /\ task'[t].refresh
                            <=> \/ s.stale
                                \/ s.consecutiveErrors + 1 >= MaxConsecutiveErrors
                                \/ hasURLExpiredError(task[t].reason)
                      /\ ~task'[t].refresh => (s2.url = s.url /\ s2.stale = s.stale)
                      /\ task'[t].pc = "rc_check" /\ task'[t].attempt = 1]_vars
    /\ [][\A t \in TaskIds :
            (InSequence(t) /\ task'[t].pc # "unborn")
                => task'[t].refresh = task[t].refresh]_vars

\* C27 (witness): the policy has required a refresh for a generic reason because
\* the failure just counted was the max_consecutive_errors-th
C27_Witness ==
    \E t \in TaskIds :
        /\ task[t].pc = "rc_check" /\ task[t].attempt = 1 /\ task[t].refresh
        /\ heap[task[t].s].lastError = ReasonProcess
        /\ heap[task[t].s].consecutiveErrors = MaxConsecutiveErrors
        /\ ~heap[task[t].s].stale

\* C29: a backoff sleep follows a failed attempt k only when k is below the
\* maximum: a goroutine of a reconnection sequence is never in its backoff sleep
\* after the attempt numbered max attempts.
C29_NoSleepAfterFinalAttempt ==
    \A t \in TaskIds : task[t].pc = "rc_sleep" => task[t].attempt < MaxAttempts

\* C30: a Start called through the API for a name that is in the registry returns
\* "already exists" and changes neither the registry, the Stream objects, the
\* stored entries nor the set of living processes, and no extraction or process
\* start is begun under the lock; a Start that gets past the lock is for a name
\* the registry does not hold.
C30_StartOnRegisteredName ==
    /\ [][\A n \in Names :
            (streams[n] # NoStream /\ cli'.op = "Start" /\ cli'.name = n)
                => /\ cli'.res = "exists"
                   /\ UNCHANGED <<streams, heap, storage, alive, mu, start>>]_vars
    /\ [][(mu = Free /\ mu' = CliId) => streams[start'.name] = NoStream]_vars

\* C30 (witness): Start has returned "already exists" for a registered Running
\* Session whose process lives
C30_Witness ==
    /\ cli.op = "Start" /\ cli.res = "exists"
    /\ streams[cli.name] # NoStream
    /\ heap[streams[cli.name]].state = "running"
    /\ heap[streams[cli.name]].pid \in alive

\* the goroutine's step is the last of its reconnection sequence
Ends(t) == InSequence(t) /\ task'[t].pc = "unborn"

\* Start cannot go on in the model: every slot of the bounded heap is taken
NoSlot(t) == task[t].pc = "rs_start" /\ FreeSlots = {}

\* C28: every reconnection sequence terminates (a sequence whose Start finds the
\* bounded heap full is set aside); its attempts are numbered from 1
\* to max attempts, the number growing by one and only after the backoff sleep of
\* the attempt before; and when the context is not cancelled the sequence ends
\* either after a successful attempt, setting the Session to Running, or after
\* max attempts failed ones, setting it to Error.
C28_SequenceTerminates ==
    /\ \A t \in TaskIds : InSequence(t) ~> (task[t].pc = "unborn" \/ NoSlot(t))
    /\ [][\A t \in TaskIds :
            (InSequence(t) /\ task[t].pc # "rc_check")
                => task[t].attempt \in 1..MaxAttempts]_vars
    /\ [][\A t \in TaskIds :
            (InSequence(t) /\ ~Ends(t))
                => \/ task'[t].attempt = task[t].attempt
                   \/ /\ task[t].pc = "rc_sleep"
                      /\ task'[t].attempt = task[t].attempt + 1]_vars
    /\ [][\A t \in TaskIds :
            (Ends(t) /\ ~ctxDone)
                => LET o == task[t].s
                       kept == o \in Live(streams', prober', task')
                   IN \/ /\ task[t].pc = "rc_success"
                         /\ kept => heap'[o].state = "running"
                      \/ /\ task[t].pc = "rc_check"
                         /\ task[t].attempt = MaxAttempts + 1
                         /\ kept => heap'[o].state = "error"]_vars

\* C28 (witness): with the context not cancelled, a sequence has ended after max
\* attempts failed attempts and has left its Session in Error
C28_Witness ==
    /\ ~ctxDone
    /\ \A t \in TaskIds : task[t].pc = "unborn"
    /\ \E o \in ObjIds : heap[o].state = "error" /\ heap[o].errorCount > 0

\* C31: at any time at most one failure-handling or reconnection goroutine is
\* active for a session name.
C31_OneTaskPerName ==
    \A t1, t2 \in CrowdIds :
        (t1 # t2 /\ task[t1].pc # "unborn" /\ task[t2].pc # "unborn")
            => TaskName(t1) # TaskName(t2)

\* C32: a Stop called for a registered Session while RestartStream is in progress
\* returns no error, and the restart that was in progress does not register the
\* Session again after the Stop has returned.
C32_StopWinsOverRestart ==
    /\ [][(waiting.op = "Stop" /\ waiting.registered /\ waiting'.op = "returned")
            => cli'.res = "ok"]_vars
    /\ [][(waiting.op = "returned" /\ waiting.registered)
            => ~ /\ task[waiting.holder].pc = "in_start"
                 /\ task[waiting.holder].attempt = waiting.attempt
                 /\ streams[waiting.name] = NoStream
                 /\ streams'[waiting.name] # NoStream]_vars

\* the goroutine's step leaves the reconnection sequence through ctx.Done()
EndsCancelled(t) ==
    /\ Ends(t)
    /\ \/ task[t].pc = "rc_sleep"
       \/ task[t].pc = "rc_check" /\ ~Exhausted(task[t].attempt) /\ ctxDone

\* C33: a reconnection sequence that ends because the context was cancelled
\* changes no field of its Session on exit and leaves it in Reconnecting.
C33_CancelledLeavesReconnecting ==
    [][\A t \in TaskIds :
          EndsCancelled(t)
              => LET o == task[t].s
                 IN /\ o \in Live(streams', prober', task') => heap'[o] = heap[o]
                    /\ heap[o].state = "reconnecting"]_vars

\* C34: in every Stream object consecutive_errors is at least 0 and at most
\* error_count.
C34_ConsecutiveWithinTotal ==
    \A o \in ObjIds :
        /\ 0 <= heap[o].consecutiveErrors
        /\ heap[o].consecutiveErrors <= heap[o].errorCount

\* C34 (witness): a Stream whose consecutive_errors was reset and has grown again,
\* and is below its error_count
C34_Witness ==
    \E o \in ObjIds :
        /\ 0 < heap[o].consecutiveErrors
        /\ heap[o].consecutiveErrors < heap[o].errorCount

\* C35: after the probe loop has exited, through Monitor.Stop or through the
\* cancellation of the context given to Monitor.Start, IsRunning() is false.
C35_ExitedLoopIsNotRunning ==
    prober["mon"].pc = "stopped" => ~monitorRunning

\* C36: while the process a successful Restart has left is alive and Stop has not
\* been called, the server's running flag is true.
C36_FlagHoldsAfterRestart ==
    (server.fresh # 0 /\ server.fresh \in server.procs) => server.running

\* C37: FileStorage.Cleanup always terminates: a goroutine that has entered
\* Cleanup returns from it.
C37_CleanupTerminates ==
    \A th \in StoreThreads : (files.pc[th] # "idle") ~> (files.pc[th] = "idle")

\* the number of newlines of a text, which is the number of its lines when
\* every line ends with one
RECURSIVE Newlines(_)
Newlines(s) ==
    IF s = <<>> THEN 0
    ELSE (IF Head(s) = "\n" THEN 1 ELSE 0) + Newlines(Tail(s))

\* C38: after every Log call the log file holds at most maxLines lines, and
\* they are the most recently logged lines in their original order: the file
\* is the end of everything logged, starting at the beginning of a line, and
\* holds maxLines lines unless fewer were logged.
C38_FileHoldsLastLines ==
    LET file == logfile.content
        all == logfile.logged
        cut == Len(all) - Len(file)
    IN logfile.calls > 0 =>
        /\ Newlines(file) <= logfile.maxLines
        /\ cut >= 0
        /\ file = SubSeq(all, cut + 1, Len(all))
        /\ file # <<>> /\ file[Len(file)] = "\n"
        /\ cut > 0 => all[cut] = "\n"
        /\ Newlines(file) =
               IF Newlines(all) < logfile.maxLines THEN Newlines(all) ELSE logfile.maxLines

\* C38: a Log call has rotated the file: older lines were dropped, and a
\* message spanning several lines is among what was logged.
C38_Witness ==
    /\ logfile.calls > 1
    /\ Len(logfile.content) < Len(logfile.logged)
    /\ Newlines(logfile.content) = logfile.maxLines
    /\ Newlines(logfile.logged) > logfile.calls

=============================================================================
